---- MODULE Spec2Model ----
(***************************************************************************)
(* candidate-reviewer server: server/auth.py (an APIRouter with two POST   *)
(* routes) and server/main.py (the FastAPI application, the mounted auth   *)
(* router and the GET /health route).                                      *)
(*                                                                         *)
(* The model follows the import of main.py statement by statement and then *)
(* serves requests on a set of concurrent connections.  A path is the      *)
(* sequence of its "/"-separated segments: "/auth/signup" is               *)
(* <<"auth", "signup">>, "/health/" is <<"health", "">>, "/" is <<"">>     *)
(* and the empty prefix "" is <<>>; string concatenation is \o.            *)
(***************************************************************************)
EXTENDS Integers, Sequences, FiniteSets, TLC

VARIABLES pc, router_routes, app_routes, openapi_schema, conn, accepted

vars == <<pc, router_routes, app_routes, openapi_schema, conn, accepted>>

(* Bound: number of requests the environment sends in one run. *)
MaxRequests == 3

(* The concurrent client connections. *)
Clients == {"c1", "c2"}

(***************************************************************************)
(* Requests the environment can send.                                      *)
(***************************************************************************)
SignupPath == <<"auth", "signup">>
LoginPath == <<"auth", "login">>
HealthPath == <<"health">>

Methods == {"GET", "POST", "HEAD", "DELETE"}

Paths ==
    { SignupPath, LoginPath, HealthPath,
      <<"signup">>, <<"login">>, <<"nonexistent">>,
      <<"openapi.json">>, <<"docs">>, <<"docs", "oauth2-redirect">>, <<"redoc">>,
      <<"health", "">>, <<"auth", "signup", "">>, <<"">> }

Bodies == {"none", "json", "malformed"}

Requests == [method : Methods, path : Paths, body : Bodies]

NoRequest == [method |-> "-", path |-> <<>>, body |-> "none"]
NoResponse == [status |-> 0, body |-> "", endpoint |-> "none"]
Idle == [stage |-> "idle", req |-> NoRequest, resp |-> NoResponse]

(***************************************************************************)
(* The endpoint functions of the repository.  A returned dict with one     *)
(* string entry is the pair <<key, value>>.                                *)
(***************************************************************************)
signup == <<"message", "signup not implemented">>

(* Variant: login returns the payload of signup. *)
login_copy_paste == signup

login == <<"message", "login not implemented">>

(* Variant: health reports another status word. *)
health_typo == <<"status", "healthy">>

health == <<"status", "ok">>

(* JSONResponse.render: json.dumps with separators (",", ":"). *)
JsonDumps(d) == "{\"" \o d[1] \o "\":\"" \o d[2] \o "\"}"

(***************************************************************************)
(* Route registration.                                                     *)
(***************************************************************************)
Route(path, methods, endpoint) ==
    [path |-> path, methods |-> methods, endpoint |-> endpoint]

(* Variant: the route also answers HEAD, as a plain starlette Route does. *)
AddApiRoute_with_head(routes, path, method, endpoint) ==
    Append(routes, Route(path, {method, "HEAD"}, endpoint))

(* @router.post(path) / @app.get(path): an APIRoute with exactly the one   *)
(* method (APIRoute adds no HEAD).                                         *)
AddApiRoute(routes, path, method, endpoint) ==
    Append(routes, Route(path, {method}, endpoint))

(* app.add_route(path, func): a plain Route; methods default to GET, and   *)
(* HEAD is added to a route that has GET.                                  *)
AddRoute(routes, path, endpoint) ==
    Append(routes, Route(path, {"GET", "HEAD"}, endpoint))

(* FastAPI() with default arguments: setup() registers openapi_url,        *)
(* docs_url, swagger_ui_oauth2_redirect_url and redoc_url.                 *)
FastAPISetup ==
    AddRoute(
      AddRoute(
        AddRoute(
          AddRoute(<<>>, <<"openapi.json">>, "openapi"),
          <<"docs">>, "swagger_ui_html"),
        <<"docs", "oauth2-redirect">>, "swagger_ui_redirect"),
      <<"redoc">>, "redoc_html")

RECURSIVE IncludeFrom(_, _, _, _)
IncludeFrom(routes, included, prefix, i) ==
    IF i > Len(included) THEN routes
    ELSE IncludeFrom(
           Append(routes, Route(prefix \o included[i].path,
                                included[i].methods, included[i].endpoint)),
           included, prefix, i + 1)

(* Variant: the router is mounted with prefix="/auth". *)
IncludeRouter_prefixed(routes, included, prefix) ==
    IncludeFrom(routes, included, <<"auth">>, 1)

(* app.include_router(router, prefix=""): every route of the router is     *)
(* added to the app at prefix + route.path, in order.                      *)
IncludeRouter(routes, included, prefix) == IncludeFrom(routes, included, prefix, 1)

(***************************************************************************)
(* Routing: starlette Router.app over the route table.                     *)
(***************************************************************************)
(* Variant: the path regex is not anchored at its start. *)
RouteMatches_unanchored(route, method, path) ==
    IF ~(/\ Len(path) <= Len(route.path)
         /\ SubSeq(route.path, Len(route.path) - Len(path) + 1, Len(route.path)) = path)
    THEN "NONE"
    ELSE IF method \in route.methods THEN "FULL" ELSE "PARTIAL"

(* Route.matches: the path regex of a parameterless route matches the      *)
(* whole path; a path match with a method outside route.methods is PARTIAL.*)
RouteMatches(route, method, path) ==
    IF route.path # path THEN "NONE"
    ELSE IF method \in route.methods THEN "FULL" ELSE "PARTIAL"

RECURSIVE RStripSlash(_)
(* str.rstrip("/") *)
RStripSlash(path) ==
    IF Len(path) > 0 /\ path[Len(path)] = ""
    THEN RStripSlash(SubSeq(path, 1, Len(path) - 1))
    ELSE path

(* redirect_slashes: the path with its trailing slashes removed, or with   *)
(* one added.                                                              *)
ToggleSlash(path) ==
    IF path[Len(path)] = "" THEN RStripSlash(path) ELSE Append(path, "")

FirstMatch(routes, kind, method, path) ==
    LET hits == { i \in 1..Len(routes) : RouteMatches(routes[i], method, path) = kind }
    IN IF hits = {} THEN 0 ELSE CHOOSE i \in hits : \A j \in hits : i <= j

(* Variant: a PARTIAL match is not remembered; a wrong method is not found. *)
RouterApp_no_partial(routes, method, path) ==
    LET full == FirstMatch(routes, "FULL", method, path)
    IN IF full # 0 THEN [kind |-> "endpoint", endpoint |-> routes[full].endpoint]
       ELSE [kind |-> "not_found", endpoint |-> "none"]

(* Router.app: the first FULL match is handled; else the first PARTIAL     *)
(* match is handled (and answers 405); else a route matching the toggled   *)
(* path in any way redirects; else the default not_found.                  *)
RouterApp(routes, method, path) ==
    LET full == FirstMatch(routes, "FULL", method, path)
        partial == FirstMatch(routes, "PARTIAL", method, path)
    IN IF full # 0 THEN [kind |-> "endpoint", endpoint |-> routes[full].endpoint]
       ELSE IF partial # 0 THEN [kind |-> "method_not_allowed", endpoint |-> "none"]
       ELSE IF path # <<"">> /\
               \E i \in 1..Len(routes) :
                  RouteMatches(routes[i], method, ToggleSlash(path)) # "NONE"
            THEN [kind |-> "redirect", endpoint |-> "none"]
       ELSE [kind |-> "not_found", endpoint |-> "none"]

(* FastAPI.openapi(): the schema is generated once and cached on the app.  *)
Openapi(schema) == IF schema = "None" THEN "openapi-schema" ELSE schema

(* Variant: signup declares a body parameter, so a missing or malformed    *)
(* body is rejected with 422.                                              *)
Call_reads_body(endpoint, req, schema) ==
    CASE endpoint = "signup" ->
           IF req.body = "json"
           THEN [status |-> 200, body |-> JsonDumps(signup), endpoint |-> endpoint]
           ELSE [status |-> 422, body |-> JsonDumps(<<"detail", "Unprocessable Entity">>),
                 endpoint |-> endpoint]
      [] endpoint = "login" ->
           [status |-> 200, body |-> JsonDumps(login), endpoint |-> endpoint]
      [] endpoint = "health" ->
           [status |-> 200, body |-> JsonDumps(health), endpoint |-> endpoint]
      [] endpoint = "openapi" ->
           [status |-> 200, body |-> Openapi(schema), endpoint |-> endpoint]
      [] OTHER ->
           [status |-> 200, body |-> "html:" \o endpoint, endpoint |-> endpoint]

(* Variant: health reports state of the application (whether the schema   *)
(* has been generated).                                                    *)
Call_stateful(endpoint, req, schema) ==
    CASE endpoint = "signup" ->
           [status |-> 200, body |-> JsonDumps(signup), endpoint |-> endpoint]
      [] endpoint = "login" ->
           [status |-> 200, body |-> JsonDumps(login), endpoint |-> endpoint]
      [] endpoint = "health" ->
           [status |-> 200, body |-> JsonDumps(<<"status", schema>>), endpoint |-> endpoint]
      [] endpoint = "openapi" ->
           [status |-> 200, body |-> Openapi(schema), endpoint |-> endpoint]
      [] OTHER ->
           [status |-> 200, body |-> "html:" \o endpoint, endpoint |-> endpoint]

(* Variant: login raises the HTTPException that auth.py imports. *)
Call_raises(endpoint, req, schema) ==
    CASE endpoint = "signup" ->
           [status |-> 200, body |-> JsonDumps(signup), endpoint |-> endpoint]
      [] endpoint = "login" ->
           [status |-> 501, body |-> JsonDumps(<<"detail", "login not implemented">>),
            endpoint |-> endpoint]
      [] endpoint = "health" ->
           [status |-> 200, body |-> JsonDumps(health), endpoint |-> endpoint]
      [] endpoint = "openapi" ->
           [status |-> 200, body |-> Openapi(schema), endpoint |-> endpoint]
      [] OTHER ->
           [status |-> 200, body |-> "html:" \o endpoint, endpoint |-> endpoint]

(* The endpoint call and its response.  signup, login and health declare   *)
(* no parameter: nothing of the request is read or validated, and the      *)
(* returned dict is rendered as a 200 JSONResponse.                        *)
Call(endpoint, req, schema) ==
    CASE endpoint = "signup" ->
           [status |-> 200, body |-> JsonDumps(signup), endpoint |-> endpoint]
      [] endpoint = "login" ->
           [status |-> 200, body |-> JsonDumps(login), endpoint |-> endpoint]
      [] endpoint = "health" ->
           [status |-> 200, body |-> JsonDumps(health), endpoint |-> endpoint]
      [] endpoint = "openapi" ->
           [status |-> 200, body |-> Openapi(schema), endpoint |-> endpoint]
      [] OTHER ->
           [status |-> 200, body |-> "html:" \o endpoint, endpoint |-> endpoint]

(* The response of the application to a request. *)
Respond(routes, req, schema) ==
    LET out == RouterApp(routes, req.method, req.path)
    IN CASE out.kind = "endpoint" -> Call(out.endpoint, req, schema)
         [] out.kind = "method_not_allowed" ->
              [status |-> 405, body |-> JsonDumps(<<"detail", "Method Not Allowed">>),
               endpoint |-> "none"]
         [] out.kind = "redirect" ->
              [status |-> 307, body |-> "", endpoint |-> "none"]
         [] OTHER ->
              [status |-> 404, body |-> JsonDumps(<<"detail", "Not Found">>),
               endpoint |-> "none"]

(***************************************************************************)
(* State machine.                                                          *)
(***************************************************************************)
Init ==
    /\ pc = "auth:3"
    /\ router_routes = <<>>
    /\ app_routes = <<>>
    /\ openapi_schema = "None"
    /\ conn = [c \in Clients |-> Idle]
    /\ accepted = 0

(* auth.py:3  router = APIRouter() *)
CreateRouter ==
    /\ pc = "auth:3"
    /\ router_routes' = <<>>
    /\ pc' = "auth:5"
    /\ UNCHANGED <<app_routes, openapi_schema, conn, accepted>>

(* auth.py:5  @router.post("/auth/signup") *)
DeclareSignup ==
    /\ pc = "auth:5"
    /\ router_routes' = AddApiRoute(router_routes, SignupPath, "POST", "signup")
    /\ pc' = "auth:10"
    /\ UNCHANGED <<app_routes, openapi_schema, conn, accepted>>

(* Variant: the login route is declared on the path of signup. *)
DeclareLogin_same_path ==
    /\ pc = "auth:10"
    /\ router_routes' = AddApiRoute(router_routes, SignupPath, "POST", "login")
    /\ pc' = "main:4"
    /\ UNCHANGED <<app_routes, openapi_schema, conn, accepted>>

(* auth.py:10  @router.post("/auth/login") *)
DeclareLogin ==
    /\ pc = "auth:10"
    /\ router_routes' = AddApiRoute(router_routes, LoginPath, "POST", "login")
    /\ pc' = "main:4"
    /\ UNCHANGED <<app_routes, openapi_schema, conn, accepted>>

(* main.py:4  app = FastAPI() *)
CreateApp ==
    /\ pc = "main:4"
    /\ app_routes' = FastAPISetup
    /\ openapi_schema' = "None"
    /\ pc' = "main:7"
    /\ UNCHANGED <<router_routes, conn, accepted>>

(* main.py:7  app.include_router(auth_router) *)
MountAuthRouter ==
    /\ pc = "main:7"
    /\ app_routes' = IncludeRouter(app_routes, router_routes, <<>>)
    /\ pc' = "main:9"
    /\ UNCHANGED <<router_routes, openapi_schema, conn, accepted>>

(* main.py:9  @app.get("/health") *)
DeclareHealth ==
    /\ pc = "main:9"
    /\ app_routes' = AddApiRoute(app_routes, HealthPath, "GET", "health")
    /\ pc' = "serving"
    /\ UNCHANGED <<router_routes, openapi_schema, conn, accepted>>

(* A request arrives on an idle connection of the serving application. *)
Receive(c) ==
    /\ pc = "serving"
    /\ conn[c].stage = "idle"
    /\ accepted < MaxRequests
    /\ \E r \in Requests :
          conn' = [conn EXCEPT ![c] = [stage |-> "received", req |-> r,
                                       resp |-> NoResponse]]
    /\ accepted' = accepted + 1
    /\ UNCHANGED <<pc, router_routes, app_routes, openapi_schema>>

(* The application routes the request and runs the matched endpoint; the   *)
(* openapi endpoint leaves the generated schema cached on the app.         *)
Dispatch(c) ==
    /\ pc = "serving"
    /\ conn[c].stage = "received"
    /\ LET resp == Respond(app_routes, conn[c].req, openapi_schema)
       IN /\ conn' = [conn EXCEPT ![c].stage = "responded", ![c].resp = resp]
          /\ openapi_schema' = IF resp.endpoint = "openapi"
                               THEN Openapi(openapi_schema)
                               ELSE openapi_schema
    /\ UNCHANGED <<pc, router_routes, app_routes, accepted>>

(* The response is sent and the connection is free again. *)
Send(c) ==
    /\ pc = "serving"
    /\ conn[c].stage = "responded"
    /\ conn' = [conn EXCEPT ![c] = Idle]
    /\ UNCHANGED <<pc, router_routes, app_routes, openapi_schema, accepted>>

Next ==
    \/ CreateRouter
    \/ DeclareSignup
    \/ DeclareLogin
    \/ CreateApp
    \/ MountAuthRouter
    \/ DeclareHealth
    \/ \E c \in Clients : Receive(c)
    \/ \E c \in Clients : Dispatch(c)
    \/ \E c \in Clients : Send(c)

Spec == Init /\ [][Next]_vars

TypeOK ==
    /\ accepted \in 0..MaxRequests
    /\ openapi_schema \in {"None", "openapi-schema"}
    /\ \A c \in Clients : conn[c].stage \in {"idle", "received", "responded"}

(***************************************************************************)
(* Properties.                                                             *)
(***************************************************************************)
Responded(c) == conn[c].stage = "responded"

Is(c, method, path) ==
    Responded(c) /\ conn[c].req.method = method /\ conn[c].req.path = path

DeclaredPaths == {<<"auth", "signup">>, <<"auth", "login">>, <<"health">>}

DocsPaths == {<<"openapi.json">>, <<"docs">>, <<"docs", "oauth2-redirect">>, <<"redoc">>}

DeclaredEndpoints == {"signup", "login", "health"}

AllowedMethods(path) ==
    IF path \in {<<"auth", "signup">>, <<"auth", "login">>} THEN {"POST"}
    ELSE IF path = <<"health">> THEN {"GET"}
    ELSE IF path \in DocsPaths THEN {"GET", "HEAD"}
    ELSE {}

(* A registered path followed by one or more trailing slashes. *)
SlashVariant(path) ==
    /\ path[Len(path)] = ""
    /\ RStripSlash(path) \in DeclaredPaths \cup DocsPaths

(* C1: every GET /health is dispatched to the health handler and answered  *)
(* 200 with the JSON object {"status": "ok"} (rendered compactly), whatever*)
(* its body and whatever was served before or is served concurrently.      *)
C1_HealthOk ==
    \A c \in Clients :
       Is(c, "GET", <<"health">>) =>
          conn[c].resp = [status |-> 200, body |-> "{\"status\":\"ok\"}",
                          endpoint |-> "health"]

C1_Witness ==
    \E c, d \in Clients :
       /\ c # d
       /\ Is(c, "GET", <<"health">>)
       /\ conn[c].req.body = "malformed"
       /\ conn[c].resp.status = 200
       /\ conn[d].stage # "idle"
       /\ accepted >= 3

(* C2: every POST /auth/signup, with no body, a JSON body or a malformed   *)
(* body, is answered 200 with the JSON object                              *)
(* {"message": "signup not implemented"}; no body gives a validation error.*)
C2_SignupOk ==
    \A c \in Clients :
       Is(c, "POST", <<"auth", "signup">>) =>
          conn[c].resp = [status |-> 200,
                          body |-> "{\"message\":\"signup not implemented\"}",
                          endpoint |-> "signup"]

C2_Witness ==
    \E c, d \in Clients :
       /\ Is(c, "POST", <<"auth", "signup">>) /\ conn[c].req.body = "malformed"
       /\ Is(d, "POST", <<"auth", "signup">>) /\ conn[d].req.body = "none"
       /\ conn[c].resp.status = 200 /\ conn[d].resp.status = 200

(* C3: every POST /auth/login, whatever its body, is answered 200 with the *)
(* JSON object {"message": "login not implemented"}.                       *)
C3_LoginOk ==
    \A c \in Clients :
       Is(c, "POST", <<"auth", "login">>) =>
          conn[c].resp = [status |-> 200,
                          body |-> "{\"message\":\"login not implemented\"}",
                          endpoint |-> "login"]

C3_Witness ==
    \E c, d \in Clients :
       /\ Is(c, "POST", <<"auth", "login">>) /\ conn[c].req.body = "json"
       /\ Is(d, "POST", <<"auth", "login">>) /\ conn[d].req.body = "malformed"
       /\ conn[c].resp.status = 200 /\ conn[d].resp.status = 200

(* C4: GET /auth/signup and GET /auth/login are answered 405, never 404,   *)
(* reach no handler and carry neither "not implemented" payload.           *)
C4_WrongMethod ==
    \A c \in Clients :
       (Is(c, "GET", <<"auth", "signup">>) \/ Is(c, "GET", <<"auth", "login">>)) =>
          /\ conn[c].resp.status = 405
          /\ conn[c].resp.endpoint = "none"
          /\ conn[c].resp.body \notin {"{\"message\":\"signup not implemented\"}",
                                       "{\"message\":\"login not implemented\"}"}

C4_Witness ==
    \E c, d \in Clients :
       /\ Is(c, "GET", <<"auth", "signup">>) /\ conn[c].resp.status = 405
       /\ Is(d, "GET", <<"auth", "login">>) /\ conn[d].resp.status = 405

(* C5 as stated: every request to a path other than /auth/signup,          *)
(* /auth/login and /health is answered 404 and reaches none of the three   *)
(* handlers.                                                               *)
C5_Original ==
    \A c \in Clients :
       (Responded(c) /\ conn[c].req.path \notin DeclaredPaths) =>
          /\ conn[c].resp.status = 404
          /\ conn[c].resp.endpoint \notin DeclaredEndpoints

(* C5 amended: every request, with any method, to a path that is neither a *)
(* declared path, nor one of the four default documentation paths of       *)
(* FastAPI(), nor one of those seven followed by trailing slashes, is      *)
(* answered 404 and reaches no handler; and no request to a path other     *)
(* than the three declared ones reaches signup, login or health.           *)
C5_NotFound ==
    \A c \in Clients :
       Responded(c) =>
          /\ (conn[c].req.path \notin DeclaredPaths \cup DocsPaths
                 /\ ~SlashVariant(conn[c].req.path)) =>
                (conn[c].resp.status = 404 /\ conn[c].resp.endpoint = "none")
          /\ conn[c].req.path \notin DeclaredPaths =>
                conn[c].resp.endpoint \notin DeclaredEndpoints

C5_Witness ==
    \E c, d \in Clients :
       /\ Is(c, "DELETE", <<"nonexistent">>) /\ conn[c].resp.status = 404
       /\ Is(d, "GET", <<"">>) /\ conn[d].resp.status = 404

C7_Original ==
    \A c \in Clients :
       Responded(c) =>
          /\ conn[c].resp.endpoint \in DeclaredEndpoints => conn[c].resp.status = 200
          /\ conn[c].resp.status \in {200, 404, 405}

(* C7 amended: a request matched to signup, login or health ends with 200; *)
(* the non-200 outcomes are the framework's: 404 for a path that matches   *)
(* no route, 405 for a registered path with a method it does not allow,    *)
(* and 307 (trailing-slash redirect) for a registered path followed by     *)
(* trailing slashes.                                                       *)
C7_NoHandlerFails ==
    \A c \in Clients :
       Responded(c) =>
          LET path == conn[c].req.path
              status == conn[c].resp.status
          IN /\ conn[c].resp.endpoint \in DeclaredEndpoints => status = 200
             /\ status \in {200, 307, 404, 405}
             /\ status = 404 => path \notin DeclaredPaths \cup DocsPaths
             /\ status = 405 => (path \in DeclaredPaths \cup DocsPaths
                                   /\ conn[c].req.method \notin AllowedMethods(path))
             /\ status = 307 => SlashVariant(path)

C7_Witness ==
    \E c, d \in Clients :
       /\ Is(c, "GET", <<"health", "">>) /\ conn[c].resp.status = 307
       /\ Is(d, "POST", <<"auth", "login">>) /\ conn[d].resp.status = 200

(* C8 as stated: no method+path pair other than POST /auth/signup,         *)
(* POST /auth/login and GET /health is answered with a success response.   *)
C8_Original ==
    \A c \in Clients :
       (Responded(c) /\ conn[c].resp.status = 200) =>
          <<conn[c].req.method, conn[c].req.path>> \in
             {<<"POST", <<"auth", "signup">>>>, <<"POST", <<"auth", "login">>>>,
              <<"GET", <<"health">>>>}

(* C8 amended: the success responses of the constructed app are exactly    *)
(* those of POST /auth/signup, POST /auth/login, GET /health and of GET    *)
(* and HEAD on the four documentation routes FastAPI() registers by        *)
(* default (/openapi.json, /docs, /docs/oauth2-redirect, /redoc).          *)
C8_Surface ==
    \A c \in Clients :
       Responded(c) =>
          (conn[c].resp.status = 200 <=>
             \/ <<conn[c].req.method, conn[c].req.path>> \in
                  {<<"POST", <<"auth", "signup">>>>, <<"POST", <<"auth", "login">>>>,
                   <<"GET", <<"health">>>>}
             \/ (conn[c].req.method \in {"GET", "HEAD"} /\ conn[c].req.path \in DocsPaths))

C8_Witness ==
    \E c, d \in Clients :
       /\ Is(c, "HEAD", <<"health">>) /\ conn[c].resp.status = 405
       /\ Is(d, "GET", <<"docs">>) /\ conn[d].resp.status = 200

(* C9: the auth router is mounted under no prefix: every route of the      *)
(* router is in the app's table at its declared path, POST /auth/signup    *)
(* and POST /auth/login reach signup and login, POST /signup and           *)
(* POST /login are not found, and GET /health still reaches health.        *)
C9_NoPrefix ==
    /\ pc \in {"main:9", "serving"} =>
          \A i \in 1..Len(router_routes) :
             \E j \in 1..Len(app_routes) : app_routes[j] = router_routes[i]
    /\ \A c \in Clients :
          /\ Is(c, "POST", <<"auth", "signup">>) => conn[c].resp.endpoint = "signup"
          /\ Is(c, "POST", <<"auth", "login">>) => conn[c].resp.endpoint = "login"
          /\ (Is(c, "POST", <<"signup">>) \/ Is(c, "POST", <<"login">>)) =>
                (conn[c].resp.status = 404 /\ conn[c].resp.endpoint = "none")
          /\ Is(c, "GET", <<"health">>) => conn[c].resp.endpoint = "health"

C9_Witness ==
    \E c, d \in Clients :
       /\ Is(c, "POST", <<"signup">>) /\ conn[c].resp.status = 404
       /\ Is(d, "POST", <<"auth", "signup">>) /\ conn[d].resp.endpoint = "signup"

(* C10 as stated: the router of auth.py maps three path+method pairs to    *)
(* three handlers.                                                         *)
C10_Original ==
    pc \notin {"auth:3", "auth:5", "auth:10"} => Len(router_routes) = 3

(* C10 amended: the router of auth.py maps two path+method pairs,          *)
(* POST /auth/signup and POST /auth/login, to two handlers; the third      *)
(* pair, GET /health, is registered by the entrypoint on the application   *)
(* itself and is no route of the router.                                   *)
C10_RouterRoutes ==
    /\ pc \notin {"auth:3", "auth:5", "auth:10"} =>
          router_routes =
             << [path |-> <<"auth", "signup">>, methods |-> {"POST"}, endpoint |-> "signup"],
                [path |-> <<"auth", "login">>, methods |-> {"POST"}, endpoint |-> "login"] >>
    /\ pc = "serving" =>
          \E j \in 1..Len(app_routes) :
             app_routes[j] = [path |-> <<"health">>, methods |-> {"GET"},
                              endpoint |-> "health"]

C10_Witness ==
    /\ pc = "serving"
    /\ Len(router_routes) = 2
    /\ Len(app_routes) = 7

====
